---- MODULE Spec2Model ----
(***************************************************************************)
(* DORA metrics aggregation engine (src/src/metrics.ts), its GraphQL       *)
(* resolver (src/src/resolvers.ts) and the ingestion job fetchData         *)
(* (src/unnamed/part_001).                                                 *)
(*                                                                         *)
(* Time.  An instant is a number of hours since the model epoch            *)
(* 2024-01-01T00:00Z, which is a Monday.  An ISO date string "YYYY-MM-DD"  *)
(* is the index of its calendar day (0 = 2024-01-01).  A luxon DateTime    *)
(* and a JavaScript Date are both instants; Date.getTime() is the instant  *)
(* in milliseconds.                                                        *)
(***************************************************************************)
EXTENDS Integers, Sequences, FiniteSets, TLC

VARIABLES rangeArgs, rangeOut, activity, redArgs, redOut, score, call, fetch

rangeVars == <<rangeArgs, rangeOut>>

redVars == <<redArgs, redOut>>

mainVars == <<score, call>>

fetchVars == <<fetch>>

vars == <<rangeArgs, rangeOut, activity, redArgs, redOut, score, call, fetch>>

\* the ingestion job before it has started
IdleFetch ==
  [pc |-> "idle", owner |-> "", startDate |-> 0, endDate |-> 0,
   listed |-> {}, repos |-> <<>>, data |-> {}, count |-> [issue |-> 0, pr |-> 0]]

(***************************************************************************)
(* Bounds                                                                  *)
(***************************************************************************)
\* last calendar day used as startDate / endDate of the bucketizer inputs
MaxRangeDay == 64

\* number of dora requests of a run
MaxCalls == 2

\* number of storage operations that fail in a run
MaxFailures == 1

\* last calendar day used as endDate of a dora request
LastDay == 8

(***************************************************************************)
(* Calendar (luxon DateTime, JavaScript Date)                              *)
(***************************************************************************)
HoursPerDay == 24

DaysPerWeek == 7

\* lengths of the months of 2024, the year of the model epoch
MonthLengths == <<31, 29, 31, 30, 31, 30, 31, 31, 30, 31, 30, 31>>

Min(a, b) == IF a <= b THEN a ELSE b

\* DateTime.min(a, b)
DateTimeMin(a, b) == Min(a, b)

\* day index of the first day of month m (m = 0 is January 2024)
RECURSIVE FirstOfMonth(_)
FirstOfMonth(m) ==
  IF m = 0 THEN 0 ELSE FirstOfMonth(m - 1) + MonthLengths[m]

\* month that holds calendar day d
RECURSIVE MonthFrom(_, _)
MonthFrom(d, m) ==
  IF d < FirstOfMonth(m + 1) THEN m ELSE MonthFrom(d, m + 1)

MonthOfDay(d) == MonthFrom(d, 0)

\* DateTime.fromISO(isoDate): midnight of that day
FromISO(isoDate) == isoDate * HoursPerDay

\* DateTime.toISODate()
ToISODate(t) == t \div HoursPerDay

\* new Date("YYYY-MM-DD"): midnight UTC of that day
NewDate(isoDate) == isoDate * HoursPerDay

StartOfDay(t) == (t \div HoursPerDay) * HoursPerDay

\* DateTime.startOf("week"): the Monday of the week, at midnight
StartOfWeek(t) ==
  (ToISODate(t) - (ToISODate(t) % DaysPerWeek)) * HoursPerDay

StartOfMonth(t) == FirstOfMonth(MonthOfDay(ToISODate(t))) * HoursPerDay

\* DateTime.endOf("month"): the last instant of the last day of the month
EndOfMonth(t) ==
  FirstOfMonth(MonthOfDay(ToISODate(t)) + 1) * HoursPerDay - 1

PlusDays(t, n) == t + n * HoursPerDay

PlusWeeks(t, n) == t + n * DaysPerWeek * HoursPerDay

\* DateTime.plus({months: 1}) of a DateTime that is a start of month
PlusOneMonth(t) ==
  LET d == ToISODate(t)
      m == MonthOfDay(d)
      dom == d - FirstOfMonth(m)
      len == FirstOfMonth(m + 2) - FirstOfMonth(m + 1)
  IN  (FirstOfMonth(m + 1) + Min(dom, len - 1)) * HoursPerDay + (t % HoursPerDay)

(***************************************************************************)
(* dateRange: the time bucketizer.  The generator's yields are a sequence  *)
(* of <<start, end>> pairs of ISO dates.                                   *)
(***************************************************************************)
Granularities == {"day", "week", "month"}

RECURSIVE DayLoop(_, _)
DayLoop(current, end) ==
  IF current <= end
  THEN <<<<ToISODate(current), ToISODate(current)>>>>
         \o DayLoop(PlusDays(current, 1), end)
  ELSE <<>>

\* the week's last day, not clipped to the end of the range
WeekIntervalEndUnclipped(current, end) == PlusDays(current, 6)

WeekIntervalEnd(current, end) == DateTimeMin(PlusDays(current, 6), end)

RECURSIVE WeekLoop(_, _)
WeekLoop(current, end) ==
  IF current <= end
  THEN <<<<ToISODate(current), ToISODate(WeekIntervalEnd(current, end))>>>>
         \o WeekLoop(PlusWeeks(current, 1), end)
  ELSE <<>>

MonthIntervalEnd(current, end) == DateTimeMin(EndOfMonth(current), end)

RECURSIVE MonthLoop(_, _)
MonthLoop(current, end) ==
  IF current <= end
  THEN <<<<ToISODate(current), ToISODate(MonthIntervalEnd(current, end))>>>>
         \o MonthLoop(PlusOneMonth(current), end)
  ELSE <<>>

\* the outcome of draining the generator: the windows, or the error thrown
dateRange(startDate, endDate, granularity) ==
  LET start == FromISO(startDate)
      end == FromISO(endDate)
  IN  IF granularity = "day"
      THEN [error |-> "none", windows |-> DayLoop(StartOfDay(start), end)]
      ELSE IF granularity = "week"
      THEN [error |-> "none", windows |-> WeekLoop(StartOfWeek(start), end)]
      ELSE IF granularity = "month"
      THEN [error |-> "none", windows |-> MonthLoop(StartOfMonth(start), end)]
      ELSE [error |-> "Unsupported granularity", windows |-> <<>>]

NoOutput == [error |-> "pending", windows |-> <<>>]

(***************************************************************************)
(* Numbers.  A JavaScript number is an exact fraction [n, d] in lowest     *)
(* terms with d > 0; NaN is the fraction with d = 0.                       *)
(***************************************************************************)
Abs(x) == IF x < 0 THEN -x ELSE x

RECURSIVE GCD(_, _)
GCD(a, b) == IF b = 0 THEN a ELSE GCD(b, a % b)

NaN == [n |-> 0, d |-> 0]

IsNaN(x) == x.d = 0

Rat(n, d) ==
  IF d = 0 THEN NaN
  ELSE LET g == GCD(Abs(n), Abs(d))
           s == IF d < 0 THEN -1 ELSE 1
       IN  [n |-> s * (n \div g), d |-> s * (d \div g)]

Num(i) == [n |-> i, d |-> 1]

Zero == Num(0)

RatAdd(x, y) ==
  IF IsNaN(x) \/ IsNaN(y) THEN NaN
  ELSE IF x.d = y.d THEN Rat(x.n + y.n, x.d)
  ELSE Rat(x.n * y.d + y.n * x.d, x.d * y.d)

RatSub(x, y) == RatAdd(x, [n |-> -y.n, d |-> y.d])

\* x / k for an integer k; x / 0 is NaN for x = 0 (the only case that occurs)
RatDiv(x, k) == IF IsNaN(x) \/ k = 0 THEN NaN ELSE Rat(x.n, x.d * k)

RatMul(x, k) == IF IsNaN(x) THEN NaN ELSE Rat(x.n * k, x.d)

\* Math.round(x * 100) / 100, on the whole and the fractional part of x
Round2(x) ==
  IF IsNaN(x) \/ x.d = 1 THEN x
  ELSE LET whole == x.n \div x.d
           rem == x.n % x.d
           hundredths == (rem * 200 + x.d) \div (2 * x.d)
       IN  RatAdd(Num(whole), Rat(hundredths, 100))

\* a || 0 on a Record<string, number> lookup: undefined, NaN and 0 give 0
OrZero(f, k) == IF k \in DOMAIN f /\ ~IsNaN(f[k]) THEN f[k] ELSE Zero

\* the count without its "|| 1" guard
OrOneMissing(k) == k

\* count || 1
OrOne(k) == IF k = 0 THEN 1 ELSE k

MsPerHour == 1000 * 60 * 60

\* new Date(x).getTime(): milliseconds
GetTime(t) == t * MsPerHour

(***************************************************************************)
(* Activity store: the releases, prs, issues and repos collections.       *)
(* mergedAt / closedAt = NoTime stands for an absent value.                *)
(***************************************************************************)
NoTime == -1

EmptyStore == [releases |-> {}, prs |-> {}, issues |-> {}, repos |-> {}]

\* where: { org, timestamp: { gte, lte } }
InWindow(doc, owner, startDate, endDate) ==
  /\ doc.org = owner
  /\ doc.timestamp >= startDate
  /\ doc.timestamp <= endDate

\* any label at all marks a failure
IsFailureAnyLabel(issue) == issue.labels # {}

\* issue.labels.some(label => label.name === "failure")
IsFailure(issue) == "failure" \in issue.labels

\* calculateAverage(metrics, count)
calculateAverage(metrics, count) ==
  [key \in DOMAIN metrics |-> RatDiv(metrics[key], OrOne(count[key]))]

calculateDeploymentFrequency(store, owner, startDate, endDate) ==
  LET releaseDocs ==
        {r \in store.releases : InWindow(r, owner, startDate, endDate)}
  IN  [userDeployments |->
         [u \in {r.user : r \in releaseDocs} |->
            Num(Cardinality({r \in releaseDocs : r.user = u}))],
       orgDeployment |-> Num(Cardinality(releaseDocs)),
       repoDeployments |->
         [p \in {r.repo : r \in releaseDocs} |->
            Num(Cardinality({r \in releaseDocs : r.repo = p}))]]

\* Math.round((mergedTime - firstCommitTime / (1000 * 60 * 60)) * 100) / 100
LeadTime(pr) ==
  Round2(RatSub(Num(GetTime(pr.mergedAt)),
                Rat(GetTime(pr.createdAt), MsPerHour)))

\* the running sums "leadTime += ..." over the merged pull requests S
RECURSIVE SumLeadTime(_)
SumLeadTime(S) ==
  IF S = {} THEN Zero
  ELSE LET x == CHOOSE y \in S : TRUE
       IN  RatAdd(LeadTime(x), SumLeadTime(S \ {x}))

calculateLeadTimeForChanges(store, owner, repos, startDate, endDate) ==
  LET prDocs == {p \in store.prs :
                   InWindow(p, owner, startDate, endDate) /\ p.repo \in repos}
      merged == {p \in prDocs : p.mergedAt # NoTime}
      userLeadTime ==
        [u \in {p.user : p \in merged} |->
           SumLeadTime({p \in merged : p.user = u})]
      userPRCount ==
        [u \in {p.user : p \in merged} |->
           Cardinality({p \in merged : p.user = u})]
      repoLeadTime ==
        [r \in {p.repo : p \in merged} |->
           SumLeadTime({p \in merged : p.repo = r})]
      repoPRCount ==
        [r \in {p.repo : p \in merged} |->
           Cardinality({p \in merged : p.repo = r})]
      orgLeadTime == SumLeadTime(merged)
      orgPRCount == Cardinality(merged)
  IN  [userLeadTime |-> calculateAverage(userLeadTime, userPRCount),
       orgLeadTime |-> RatDiv(orgLeadTime, OrOne(orgPRCount)),
       repoLeadTime |-> calculateAverage(repoLeadTime, repoPRCount)]

calculateChangeFailureRate(store, owner, repos, startDate, endDate) ==
  LET issueDocs == {i \in store.issues :
                      InWindow(i, owner, startDate, endDate) /\ i.repo \in repos}
      failures == {i \in issueDocs : IsFailure(i)}
      Rate(f, t) == RatMul(RatDiv(Num(f), t), 100)
  IN  [userFailureRates |->
         [u \in {i.user : i \in issueDocs} |->
            Rate(Cardinality({i \in failures : i.user = u}),
                 Cardinality({i \in issueDocs : i.user = u}))],
       orgFailureRate |->
         Rate(Cardinality(failures), Cardinality(issueDocs)),
       repoFailureRates |->
         [r \in {i.repo : i \in issueDocs} |->
            Rate(Cardinality({i \in failures : i.repo = r}),
                 Cardinality({i \in issueDocs : i.repo = r}))]]

\* Math.round((closedAt.getTime() - createdAt.getTime() / (1000*60*60)) * 100) / 100
RestoreTime(issue) ==
  Round2(RatSub(Num(GetTime(issue.closedAt)),
                Rat(GetTime(issue.createdAt), MsPerHour)))

\* the running sums "restoreTime += ..." over the closed failure issues S
RECURSIVE SumRestoreTime(_)
SumRestoreTime(S) ==
  IF S = {} THEN Zero
  ELSE LET x == CHOOSE y \in S : TRUE
       IN  RatAdd(RestoreTime(x), SumRestoreTime(S \ {x}))

calculateTimeToRestoreService(store, owner, repos, startDate, endDate) ==
  LET issueDocs == {i \in store.issues :
                      InWindow(i, owner, startDate, endDate) /\ i.repo \in repos}
      restored == {i \in issueDocs : IsFailure(i) /\ i.closedAt # NoTime}
      userRestoreTime ==
        [u \in {i.user : i \in restored} |->
           SumRestoreTime({i \in restored : i.user = u})]
      userFailureCount ==
        [u \in {i.user : i \in restored} |->
           Cardinality({i \in restored : i.user = u})]
      repoRestoreTime ==
        [r \in {i.repo : i \in restored} |->
           SumRestoreTime({i \in restored : i.repo = r})]
      repoFailureCount ==
        [r \in {i.repo : i \in restored} |->
           Cardinality({i \in restored : i.repo = r})]
      orgRestoreTime == SumRestoreTime(restored)
      orgFailureCount == Cardinality(restored)
  IN  [userRestoreTime |-> calculateAverage(userRestoreTime, userFailureCount),
       orgRestoreTime |-> RatDiv(orgRestoreTime, OrOne(orgFailureCount)),
       repoRestoreTime |-> calculateAverage(repoRestoreTime, repoFailureCount)]

\* the users taken from the deployments only, as the repositories are
combineMetricsDeployedUsers(owner, deploymentData, leadTimeData, failureRateData, restoreTimeData) ==
  LET users == DOMAIN deploymentData.userDeployments
  IN  [orgs |-> [org |-> owner,
                 deploymentFrequency |-> deploymentData.orgDeployment,
                 leadTimeForChanges |-> leadTimeData.orgLeadTime,
                 changeFailureRate |-> failureRateData.orgFailureRate,
                 timeToRestoreService |-> restoreTimeData.orgRestoreTime],
       repos |->
         {[repo |-> repo,
           deploymentFrequency |-> OrZero(deploymentData.repoDeployments, repo),
           leadTimeForChanges |-> OrZero(leadTimeData.repoLeadTime, repo),
           changeFailureRate |-> OrZero(failureRateData.repoFailureRates, repo),
           timeToRestoreService |-> OrZero(restoreTimeData.repoRestoreTime, repo)]
            : repo \in DOMAIN deploymentData.repoDeployments},
       users |->
         {[user |-> user,
           deploymentFrequency |-> OrZero(deploymentData.userDeployments, user),
           leadTimeForChanges |-> OrZero(leadTimeData.userLeadTime, user),
           changeFailureRate |-> OrZero(failureRateData.userFailureRates, user),
           timeToRestoreService |-> OrZero(restoreTimeData.userRestoreTime, user)]
            : user \in users}]

combineMetrics(owner, deploymentData, leadTimeData, failureRateData, restoreTimeData) ==
  LET users == DOMAIN deploymentData.userDeployments
                 \cup DOMAIN leadTimeData.userLeadTime
                 \cup DOMAIN failureRateData.userFailureRates
                 \cup DOMAIN restoreTimeData.userRestoreTime
  IN  [orgs |-> [org |-> owner,
                 deploymentFrequency |-> deploymentData.orgDeployment,
                 leadTimeForChanges |-> leadTimeData.orgLeadTime,
                 changeFailureRate |-> failureRateData.orgFailureRate,
                 timeToRestoreService |-> restoreTimeData.orgRestoreTime],
       repos |->
         {[repo |-> repo,
           deploymentFrequency |-> OrZero(deploymentData.repoDeployments, repo),
           leadTimeForChanges |-> OrZero(leadTimeData.repoLeadTime, repo),
           changeFailureRate |-> OrZero(failureRateData.repoFailureRates, repo),
           timeToRestoreService |-> OrZero(restoreTimeData.repoRestoreTime, repo)]
            : repo \in DOMAIN deploymentData.repoDeployments},
       users |->
         {[user |-> user,
           deploymentFrequency |-> OrZero(deploymentData.userDeployments, user),
           leadTimeForChanges |-> OrZero(leadTimeData.userLeadTime, user),
           changeFailureRate |-> OrZero(failureRateData.userFailureRates, user),
           timeToRestoreService |-> OrZero(restoreTimeData.userRestoreTime, user)]
            : user \in users}]

\* one uncached window of calculateUserDoraMetrics: the four reducers, joined
\* and combined
WindowMetrics(store, owner, repos, startDate, endDate) ==
  combineMetrics(
    owner,
    calculateDeploymentFrequency(store, owner, startDate, endDate),
    calculateLeadTimeForChanges(store, owner, repos, startDate, endDate),
    calculateChangeFailureRate(store, owner, repos, startDate, endDate),
    calculateTimeToRestoreService(store, owner, repos, startDate, endDate))

\* the value of redOut before the window computation has run
NoMetrics ==
  [orgs |-> [org |-> "pending", deploymentFrequency |-> Zero,
             leadTimeForChanges |-> Zero, changeFailureRate |-> Zero,
             timeToRestoreService |-> Zero],
   repos |-> {}, users |-> {}]

NoRedArgs == [owner |-> "", repos |-> {}, startDate |-> 0, endDate |-> 0]

(***************************************************************************)
(* SpecReduce: one window computation over every store of a bounded pool   *)
(***************************************************************************)
Release(id, repo, user, t) ==
  [id |-> id, org |-> "acme", repo |-> repo, user |-> user, timestamp |-> t]

PullRequest(id, repo, user, createdAt, mergedAt) ==
  [id |-> id, org |-> "acme", repo |-> repo, user |-> user,
   timestamp |-> createdAt, createdAt |-> createdAt, mergedAt |-> mergedAt]

Issue(id, repo, user, createdAt, closedAt, labels) ==
  [id |-> id, org |-> "acme", repo |-> repo, user |-> user,
   timestamp |-> createdAt, createdAt |-> createdAt, closedAt |-> closedAt,
   labels |-> labels]

PoolReleases ==
  {Release(1, "svc", "bob", 9), Release(2, "web", "alice", 30),
   Release(3, "svc", "alice", 40)}

PoolPRs ==
  {PullRequest(1, "svc", "bob", 10, 12), PullRequest(2, "web", "alice", 5, 11),
   PullRequest(3, "svc", "bob", 20, NoTime)}

PoolIssues ==
  {Issue(1, "svc", "bob", 8, 12, {"failure"}),
   Issue(2, "web", "alice", 26, 36, {"bug", "failure"}),
   Issue(3, "svc", "bob", 9, NoTime, {"failure"}),
   Issue(4, "web", "alice", 3, 7, {"bug"}),
   Issue(5, "svc", "bob", 10, 11, {"bug"})}

PoolRepos == {[owner |-> "acme", repo |-> "svc"], [owner |-> "acme", repo |-> "web"]}

\* windows of the pool: day 0 (degenerate), days 0-1, days 1-6
PoolWindows == {<<0, 0>>, <<0, 24>>, <<24, 144>>}

(***************************************************************************)
(* Score store: the score collection, in insertion order.  A row's id is   *)
(* its position.  repo / user = NoName stands for an absent field.         *)
(***************************************************************************)
NoName == ""

NoDate == -1

EmptyMap == [k \in {} |-> 0]

\* the score composite of a row, from a metric tuple
ScoreOf(m) ==
  [deploymentFrequency |-> m.deploymentFrequency,
   leadTime |-> m.leadTimeForChanges,
   meanTimeToRestore |-> m.timeToRestoreService,
   changeFailureRate |-> m.changeFailureRate]

\* a findMany whose where clause leaves the granularity out
ScoreFindManyAnyGranularity(rows, owner, granularity, starts) ==
  SelectSeq(rows, LAMBDA r : r.org = owner /\ r.start \in starts)

\* db.score.findMany({ where: { org, granularity, start: { in: starts } } })
ScoreFindMany(rows, owner, granularity, starts) ==
  SelectSeq(rows, LAMBDA r : /\ r.org = owner
                             /\ r.granularity = granularity
                             /\ r.start \in starts)

\* a getCachedMetrics that also restores the per-user and per-repository
\* rows of a start
getCachedMetricsAllLevels(rows, owner, dates, granularity) ==
  LET starts == {dates[i][1] : i \in 1..Len(dates)}
      cachedScores == ScoreFindMany(rows, owner, granularity, starts)
      found == {cachedScores[i].start : i \in 1..Len(cachedScores)}
      Last(s) == CHOOSE i \in 1..Len(cachedScores) :
                   /\ cachedScores[i].start = s
                   /\ \A j \in (i + 1)..Len(cachedScores) :
                        cachedScores[j].start # s
      Tuple(r) == [deploymentFrequency |-> r.score.deploymentFrequency,
                   leadTimeForChanges |-> r.score.leadTime,
                   changeFailureRate |-> r.score.changeFailureRate,
                   timeToRestoreService |-> r.score.meanTimeToRestore]
      RowsOf(s) == {cachedScores[i] : i \in {j \in 1..Len(cachedScores) :
                                               cachedScores[j].start = s}}
  IN  [s \in found |->
         [orgs |-> [org |-> NoName] @@ Tuple(cachedScores[Last(s)]),
          repos |-> {[repo |-> r.repo] @@ Tuple(r)
                       : r \in {x \in RowsOf(s) : x.repo # NoName}},
          users |-> {[user |-> r.user] @@ Tuple(r)
                       : r \in {x \in RowsOf(s) : x.user # NoName}}]]

\* getCachedMetrics: one entry per start found; a later row of the query
\* result overwrites the entry of an earlier row with the same start
getCachedMetrics(rows, owner, dates, granularity) ==
  LET starts == {dates[i][1] : i \in 1..Len(dates)}
      cachedScores == ScoreFindMany(rows, owner, granularity, starts)
      found == {cachedScores[i].start : i \in 1..Len(cachedScores)}
      Last(s) == CHOOSE i \in 1..Len(cachedScores) :
                   /\ cachedScores[i].start = s
                   /\ \A j \in (i + 1)..Len(cachedScores) :
                        cachedScores[j].start # s
  IN  [s \in found |->
         [orgs |-> [org |-> NoName,
                    deploymentFrequency |->
                      cachedScores[Last(s)].score.deploymentFrequency,
                    leadTimeForChanges |-> cachedScores[Last(s)].score.leadTime,
                    changeFailureRate |->
                      cachedScores[Last(s)].score.changeFailureRate,
                    timeToRestoreService |->
                      cachedScores[Last(s)].score.meanTimeToRestore],
          repos |-> {}, users |-> {}]]

\* formatMetrics(cachedMetrics)
formatMetrics(cachedMetrics) ==
  [users |-> [s \in DOMAIN cachedMetrics |-> cachedMetrics[s].users],
   orgs |-> [s \in DOMAIN cachedMetrics |-> cachedMetrics[s].orgs],
   repos |-> [s \in DOMAIN cachedMetrics |-> cachedMetrics[s].repos]]

\* getEndDate(start, granularity); NoDate stands for the thrown
\* "Invalid granularity" error
getEndDate(start, granularity) ==
  IF granularity = "day" THEN PlusDays(start, 1)
  ELSE IF granularity = "week" THEN PlusDays(start, 7)
  ELSE IF granularity = "month" THEN PlusOneMonth(start)
  ELSE NoDate

\* the row data saveMetricsToCache creates for a computed window
CacheRow(owner, start, end, granularity, metrics) ==
  [org |-> owner, repo |-> NoName, user |-> NoName, start |-> start,
   end |-> end, granularity |-> granularity, score |-> ScoreOf(metrics.orgs)]

\* a where clause of org, start and granularity only, for every upsert
UpsertMatchesWindowOnly(row, data) ==
  /\ row.org = data.org
  /\ row.start = data.start
  /\ row.granularity = data.granularity

\* the where clause of upsertScore's findFirst: an undefined repo or user is
\* no condition at all
UpsertMatches(row, data) ==
  /\ row.org = data.org
  /\ (data.repo # NoName => row.repo = data.repo)
  /\ (data.user # NoName => row.user = data.user)
  /\ row.start = data.start
  /\ row.granularity = data.granularity

\* a findFirst that finds nothing: every upsert creates a row
ScoreFindFirstNothing(rows, data) == 0

\* db.score.findFirst: the id of the first matching row, 0 if there is none
ScoreFindFirst(rows, data) ==
  IF \E i \in 1..Len(rows) : UpsertMatches(rows[i], data)
  THEN CHOOSE i \in 1..Len(rows) :
         /\ UpsertMatches(rows[i], data)
         /\ \A j \in 1..(i - 1) : ~UpsertMatches(rows[j], data)
  ELSE 0

\* db.score.update({ where: { id }, data }): fields absent from data are kept
ScoreUpdate(rows, id, data) ==
  [rows EXCEPT ![id] =
     [org |-> data.org,
      repo |-> IF data.repo # NoName THEN data.repo ELSE @.repo,
      user |-> IF data.user # NoName THEN data.user ELSE @.user,
      start |-> data.start, end |-> data.end,
      granularity |-> data.granularity, score |-> data.score]]

\* db.score.create({ data })
ScoreCreate(rows, data) == Append(rows, data)

\* saveMetricsToDB without its loop over metrics.orgs
SaveDataNoOrgs(owner, metrics, granularity) ==
  LET Row(s, repo, user, m) ==
        [org |-> owner, repo |-> repo, user |-> user, start |-> s,
         end |-> getEndDate(s, granularity), granularity |-> granularity,
         score |-> ScoreOf(m)]
  IN  UNION {{Row(s, m.repo, NoName, m) : m \in metrics.repos[s]}
               : s \in DOMAIN metrics.repos}
        \cup UNION {{Row(s, NoName, m.user, m) : m \in metrics.users[s]}
                      : s \in DOMAIN metrics.users}

\* the upsertScore calls of saveMetricsToDB(owner, metrics, granularity)
SaveData(owner, metrics, granularity) ==
  LET Row(s, repo, user, m) ==
        [org |-> owner, repo |-> repo, user |-> user, start |-> s,
         end |-> getEndDate(s, granularity), granularity |-> granularity,
         score |-> ScoreOf(m)]
  IN  {Row(s, NoName, NoName, metrics.orgs[s]) : s \in DOMAIN metrics.orgs}
        \cup UNION {{Row(s, m.repo, NoName, m) : m \in metrics.repos[s]}
                      : s \in DOMAIN metrics.repos}
        \cup UNION {{Row(s, NoName, m.user, m) : m \in metrics.users[s]}
                      : s \in DOMAIN metrics.users}

(***************************************************************************)
(* Requests: resolvers.Query.dora and calculateUserDoraMetrics             *)
(***************************************************************************)
Calls == 1..MaxCalls

Args(owner, startDate, endDate, granularity, repo) ==
  [owner |-> owner, startDate |-> startDate, endDate |-> endDate,
   granularity |-> granularity, repo |-> repo]

\* the requests of the model; NoName / NoDate is an absent argument
Requests ==
  {Args("acme", 0, 1, "week", NoName),
   Args("acme", 0, LastDay, "week", NoName),
   Args("acme", 0, 1, "week", "svc"),
   Args("acme", 0, 1, "day", NoName),
   Args("acme", 0, 0, "year", NoName),
   Args("acme", 1, 0, "year", NoName),
   Args(NoName, 0, 1, "week", NoName),
   Args("acme", NoDate, 1, "week", NoName),
   Args("acme", 0, NoDate, "week", NoName),
   Args("acme", 0, 1, NoName, "svc")}

\* the requests that arrive while another request is in flight
RaceRequests ==
  {Args("acme", 0, 1, "week", NoName), Args("acme", 0, 1, "day", NoName)}

\* the end-to-end scenario: one release, one merged pull request and one
\* closed failure issue of one user in one repository
ScenarioStore ==
  [releases |-> {Release(1, "svc", "bob", 9)},
   prs |-> {PullRequest(1, "svc", "bob", 10, 12)},
   issues |-> {Issue(1, "svc", "bob", 8, 12, {"failure"})},
   repos |-> {[owner |-> "acme", repo |-> "svc"]}]

\* releases in two repositories, one of them at midnight of day 1 and one on
\* day 2, an issue that is no failure and a failure issue in the other
\* repository
TwoRepoStore ==
  [releases |-> {Release(1, "svc", "bob", 9), Release(2, "web", "bob", 24),
                 Release(3, "svc", "bob", 50)},
   prs |-> {},
   issues |-> {Issue(4, "svc", "bob", 3, 7, {"bug"}),
               Issue(6, "web", "bob", 3, 7, {"failure"})},
   repos |-> PoolRepos]

\* the activity stores of the model
Stores == {EmptyStore, ScenarioStore, TwoRepoStore}

NoArgs == Args(NoName, NoDate, NoDate, NoName, NoName)

IdleCall ==
  [pc |-> "idle", args |-> NoArgs, conn |-> "none", repos |-> {},
   dates |-> <<>>, cachedMetrics |-> EmptyMap, tasks |-> EmptyMap,
   saves |-> {}, status |-> "none", returned |-> FALSE,
   metrics |-> formatMetrics(EmptyMap), io |-> {}, failed |-> {}, after |-> {},
   before |-> <<>>]

\* the windows calculateUserDoraMetrics builds: pairs of Dates
WindowDates(startDate, endDate, granularity) ==
  LET g == IF granularity \in {"week", "month"} THEN granularity ELSE "day"
      ws == dateRange(startDate, endDate, g).windows
  IN  [i \in 1..Len(ws) |-> <<NewDate(ws[i][1]), NewDate(ws[i][2])>>]

WindowEnd(dates, s) ==
  LET i == CHOOSE j \in 1..Len(dates) : dates[j][1] = s IN dates[i][2]

RECURSIVE SumFails(_)
SumFails(S) ==
  IF S = {} THEN 0
  ELSE LET c == CHOOSE x \in S : TRUE
       IN  Cardinality(call[c].failed) + SumFails(S \ {c})

\* a storage operation succeeds or fails; at most MaxFailures fail in a run
Outcomes == IF SumFails(Calls) < MaxFailures THEN BOOLEAN ELSE {TRUE}

\* no operation of the call is outstanding any more
Quiescent(cl) ==
  /\ cl.pc \in {"idle", "done"}
  /\ \A s \in DOMAIN cl.tasks : cl.tasks[s].pc \in {"done", "failed"}
  /\ \A u \in cl.saves : u.pc \in {"done", "failed"}

\* the call rejects: its caller sees an error, nothing closes the connection
Throw(cl) ==
  [cl EXCEPT !.pc = "done",
             !.status = IF @ = "none" THEN "error" ELSE @]

\* operation op of the call failed
Fail(cl, op) == [cl EXCEPT !.failed = @ \cup {op}]

\* saveMetricsToDB's Promise.all resolved: calculateUserDoraMetrics returns
\* and the resolver awaits dataDB.close()
Return(cl) ==
  [cl EXCEPT !.pc = "close", !.returned = TRUE,
             !.io = @ \cup {<<"$disconnect", NoDate>>}]

\* every window computation resolved: formatMetrics, then saveMetricsToDB up
\* to its Promise.all
saveMetricsToDB(cl) ==
  LET metrics == formatMetrics(cl.cachedMetrics)
      data == SaveData(cl.args.owner, metrics, cl.args.granularity)
      withMetrics == [cl EXCEPT !.metrics = metrics]
  IN  IF \E d \in data : d.end = NoDate
      THEN Throw(withMetrics)
      ELSE IF data = {}
      THEN Return(withMetrics)
      ELSE [withMetrics EXCEPT
              !.pc = "save",
              !.saves = {[data |-> d, pc |-> "find", id |-> 0] : d \in data},
              !.io = @ \cup {<<"score.findFirst", d.start>> : d \in data}]

\* calculateUserDoraMetrics up to "await this.getCachedMetrics(...)"
StartLookup(cl, repos) ==
  [cl EXCEPT !.pc = "lookup", !.repos = repos,
             !.io = @ \cup {<<"score.findMany", NoDate>>}]

\* Promise.race in place of Promise.all over the window computations: the
\* call goes on as soon as one window is done
PromiseRace(cl) ==
  IF cl.pc = "compute"
  THEN IF \E s \in DOMAIN cl.tasks : cl.tasks[s].pc = "failed" THEN Throw(cl)
       ELSE IF \E s \in DOMAIN cl.tasks : cl.tasks[s].pc = "done"
       THEN saveMetricsToDB(cl)
       ELSE cl
  ELSE IF cl.pc = "save"
  THEN IF \E u \in cl.saves : u.pc = "failed" THEN Throw(cl)
       ELSE IF \A u \in cl.saves : u.pc = "done" THEN Return(cl)
       ELSE cl
  ELSE cl

\* Promise.allSettled in place of Promise.all: failures are not propagated
PromiseAllSettled(cl) ==
  IF /\ cl.pc = "compute"
     /\ \A s \in DOMAIN cl.tasks : cl.tasks[s].pc \in {"done", "failed"}
  THEN saveMetricsToDB(cl)
  ELSE IF /\ cl.pc = "save"
          /\ \A u \in cl.saves : u.pc \in {"done", "failed"}
  THEN Return(cl)
  ELSE cl

\* Promise.all over the window computations (while the call computes) and
\* over the upserts (while it saves): it rejects as soon as one of them has
\* failed and resolves once all of them are done
PromiseAll(cl) ==
  IF cl.pc = "compute"
  THEN IF \E s \in DOMAIN cl.tasks : cl.tasks[s].pc = "failed" THEN Throw(cl)
       ELSE IF \A s \in DOMAIN cl.tasks : cl.tasks[s].pc = "done"
       THEN saveMetricsToDB(cl)
       ELSE cl
  ELSE IF cl.pc = "save"
  THEN IF \E u \in cl.saves : u.pc = "failed" THEN Throw(cl)
       ELSE IF \A u \in cl.saves : u.pc = "done" THEN Return(cl)
       ELSE cl
  ELSE cl

\* the queries the four reducers of a window issue when they start
ReducerQueries(repos, s) ==
  {<<"releases.findMany", s>>}
    \cup (IF repos = {} THEN {}
          ELSE {<<"prs.findMany", s>>, <<"issues.findMany", s>>})

\* number of reducers of a window that wait for a query
ReducersWaiting(repos) == IF repos = {} THEN 1 ELSE 4

MissingParameter(args) ==
  \/ args.owner = NoName
  \/ args.startDate = NoDate
  \/ args.endDate = NoDate
  \/ args.granularity = NoName

\* a dora query arrives: new DataDB(), await dataDB.connect()
Dora(c, args) ==
  /\ call[c].pc = "idle"
  /\ \A d \in Calls : d < c => call[d].pc # "idle"
  /\ call' = [call EXCEPT ![c] =
       [@ EXCEPT !.pc = "connect", !.args = args,
                 !.io = {<<"$connect", NoDate>>},
                 !.after = {d \in Calls : d # c /\ call[d].pc = "done"
                                                 /\ Quiescent(call[d])}]]
  /\ UNCHANGED <<score, activity, rangeVars, redVars, fetchVars>>

\* connect() resolves; the parameter check; calculateUserDoraMetrics runs up
\* to its first await
Connect(c, ok) ==
  /\ call[c].pc = "connect"
  /\ LET cl == call[c]
         a == cl.args
         open == [cl EXCEPT !.conn = "open"]
         started == [open EXCEPT
                       !.dates = WindowDates(a.startDate, a.endDate, a.granularity)]
     IN  call' = [call EXCEPT ![c] =
           IF ~ok THEN Throw(Fail(cl, <<"$connect", NoDate>>))
           ELSE IF MissingParameter(a) THEN Throw(open)
           ELSE IF a.repo # NoName THEN StartLookup(started, {a.repo})
           ELSE [started EXCEPT !.pc = "listRepos",
                                !.io = @ \cup {<<"repos.findMany", NoDate>>}]]
  /\ UNCHANGED <<score, activity, rangeVars, redVars, fetchVars>>

\* db.repos.deleteMany in place of db.repos.findMany
ListReposDeleteMany(c, ok) ==
  /\ call[c].pc = "listRepos"
  /\ LET cl == call[c]
         repos == {r.repo : r \in {x \in activity.repos : x.owner = cl.args.owner}}
     IN  call' = [call EXCEPT ![c] =
           IF ok THEN StartLookup(cl, repos)
           ELSE Throw(Fail(cl, <<"repos.findMany", NoDate>>))]
  /\ activity' = [activity EXCEPT
                    !.repos = {x \in @ : x.owner # call[c].args.owner}]
  /\ UNCHANGED <<score, rangeVars, redVars, fetchVars>>

\* db.repos.findMany({ where: { owner } }) resolves
ListRepos(c, ok) ==
  /\ call[c].pc = "listRepos"
  /\ LET cl == call[c]
         repos == {r.repo : r \in {x \in activity.repos : x.owner = cl.args.owner}}
     IN  call' = [call EXCEPT ![c] =
           IF ok THEN StartLookup(cl, repos)
           ELSE Throw(Fail(cl, <<"repos.findMany", NoDate>>))]
  /\ UNCHANGED <<score, activity, rangeVars, redVars, fetchVars>>

\* getCachedMetrics resolves; the uncached windows start their reducers
\* (before keeps the rows the lookup has read from)
Lookup(c, ok) ==
  /\ call[c].pc = "lookup"
  /\ LET cl == call[c]
         cached == getCachedMetrics(score, cl.args.owner, cl.dates,
                                    cl.args.granularity)
         uncachedDates == {cl.dates[i][1] : i \in 1..Len(cl.dates)}
                            \ DOMAIN cached
         looked == [cl EXCEPT !.cachedMetrics = cached, !.before = score]
     IN  call' = [call EXCEPT ![c] =
           IF ~ok THEN Throw(Fail(cl, <<"score.findMany", NoDate>>))
           ELSE IF uncachedDates = {} THEN saveMetricsToDB(looked)
           ELSE [looked EXCEPT
                   !.pc = "compute",
                   !.tasks = [s \in uncachedDates |->
                                [pc |-> "reduce",
                                 left |-> ReducersWaiting(cl.repos)]],
                   !.io = @ \cup UNION {ReducerQueries(cl.repos, s)
                                          : s \in uncachedDates}]]
  /\ UNCHANGED <<score, activity, rangeVars, redVars, fetchVars>>

\* one reducer of window s resolves; the last one joins the four, combines
\* them and calls saveMetricsToCache
ReducerDone(c, s, ok) ==
  /\ s \in DOMAIN call[c].tasks
  /\ call[c].tasks[s].pc = "reduce"
  /\ LET cl == call[c]
         left == cl.tasks[s].left - 1
     IN  call' = [call EXCEPT ![c] =
           IF ~ok
           THEN PromiseAll(Fail([cl EXCEPT !.tasks[s].pc = "failed"],
                                <<"reducer", s>>))
           ELSE IF left > 0 THEN [cl EXCEPT !.tasks[s].left = left]
           ELSE [cl EXCEPT !.tasks[s] = [pc |-> "create", left |-> 0],
                           !.io = @ \cup {<<"score.create", s>>}]]
  /\ UNCHANGED <<score, activity, rangeVars, redVars, fetchVars>>

\* the metrics of window s of call cl, as its reducers computed them
dateMetrics(cl, s) ==
  WindowMetrics(activity, cl.args.owner, cl.repos, s, WindowEnd(cl.dates, s))

\* saveMetricsToCache's db.score.create resolves; the window's metrics go
\* into cachedMetrics; the last window to finish lets the call go on
CacheCreated(c, s, ok) ==
  /\ s \in DOMAIN call[c].tasks
  /\ call[c].tasks[s].pc = "create"
  /\ LET cl == call[c]
         m == dateMetrics(cl, s)
         row == CacheRow(cl.args.owner, s, WindowEnd(cl.dates, s),
                         cl.args.granularity, m)
         stored == [cl EXCEPT !.tasks[s].pc = "done",
                              !.cachedMetrics = (s :> m) @@ @]
     IN  /\ score' = IF ok THEN ScoreCreate(score, row) ELSE score
         /\ call' = [call EXCEPT ![c] =
              IF ok THEN PromiseAll(stored)
              ELSE PromiseAll(Fail([cl EXCEPT !.tasks[s].pc = "failed"],
                                   <<"score.create", s>>))]
  /\ UNCHANGED <<activity, rangeVars, redVars, fetchVars>>

\* upsertScore's findFirst resolves: update the row found, or create one
upsertScore(c, u, ok) ==
  /\ u \in call[c].saves
  /\ u.pc = "find"
  /\ LET cl == call[c]
         id == ScoreFindFirst(score, u.data)
         op == IF id # 0 THEN "update" ELSE "create"
     IN  call' = [call EXCEPT ![c] =
           IF ~ok
           THEN PromiseAll(Fail(
                  [cl EXCEPT !.saves = (@ \ {u}) \cup {[u EXCEPT !.pc = "failed"]}],
                  <<"score.findFirst", u.data.start>>))
           ELSE [cl EXCEPT
                   !.saves = (@ \ {u}) \cup {[u EXCEPT !.pc = op, !.id = id]},
                   !.io = @ \cup {<<"score." \o op, u.data.start>>}]]
  /\ UNCHANGED <<score, activity, rangeVars, redVars, fetchVars>>

\* upsertScore's update or create resolves; the last one resolves
\* saveMetricsToDB's Promise.all
ScoreWritten(c, u, ok) ==
  /\ u \in call[c].saves
  /\ u.pc \in {"update", "create"}
  /\ LET cl == call[c]
         saved == [cl EXCEPT !.saves = (@ \ {u}) \cup {[u EXCEPT !.pc = "done"]}]
     IN  /\ score' = IF ~ok THEN score
                     ELSE IF u.pc = "update" THEN ScoreUpdate(score, u.id, u.data)
                     ELSE ScoreCreate(score, u.data)
         /\ call' = [call EXCEPT ![c] =
              IF ok THEN PromiseAll(saved)
              ELSE PromiseAll(Fail(
                     [cl EXCEPT !.saves = (@ \ {u}) \cup {[u EXCEPT !.pc = "failed"]}],
                     <<"score." \o u.pc, u.data.start>>))]
  /\ UNCHANGED <<activity, rangeVars, redVars, fetchVars>>

\* dataDB.close() resolves; the resolver returns its response
Close(c, ok) ==
  /\ call[c].pc = "close"
  /\ call' = [call EXCEPT ![c] =
       IF ok THEN [@ EXCEPT !.pc = "done", !.conn = "closed", !.status = "ok"]
       ELSE Throw(Fail(@, <<"$disconnect", NoDate>>))]
  /\ UNCHANGED <<score, activity, rangeVars, redVars, fetchVars>>

Init ==
  /\ activity \in Stores
  /\ score = <<>>
  /\ call = [c \in Calls |-> IdleCall]
  /\ rangeArgs = [startDate |-> 0, endDate |-> 0, granularity |-> "day"]
  /\ rangeOut = NoOutput
  /\ redArgs = NoRedArgs
  /\ redOut = NoMetrics
  /\ fetch = IdleFetch

\* the steps of request c after its arrival
Steps(c) ==
  \/ \E ok \in Outcomes : Connect(c, ok)
  \/ \E ok \in Outcomes : ListRepos(c, ok)
  \/ \E ok \in Outcomes : Lookup(c, ok)
  \/ \E ok \in Outcomes, s \in DOMAIN call[c].tasks : ReducerDone(c, s, ok)
  \/ \E ok \in Outcomes, s \in DOMAIN call[c].tasks : CacheCreated(c, s, ok)
  \/ \E ok \in Outcomes, u \in call[c].saves : upsertScore(c, u, ok)
  \/ \E ok \in Outcomes, u \in call[c].saves : ScoreWritten(c, u, ok)
  \/ \E ok \in Outcomes : Close(c, ok)

\* no request is being served and no operation is outstanding
NoCallInFlight == \A d \in Calls : Quiescent(call[d])

\* Spec: requests arrive one after the other
Next ==
  \E c \in Calls :
    \/ \E args \in Requests : NoCallInFlight /\ Dora(c, args)
    \/ Steps(c)

Spec == Init /\ [][Next]_vars

\* SpecRace: requests arrive at any time, also while another is in flight
InitRace ==
  /\ Init
  /\ activity \in {EmptyStore, ScenarioStore}

NextRace ==
  \E c \in Calls :
    \/ \E args \in RaceRequests : Dora(c, args)
    \/ Steps(c)

SpecRace == InitRace /\ [][NextRace]_vars

InitReduce ==
  /\ activity \in [releases : SUBSET PoolReleases, prs : SUBSET PoolPRs,
                   issues : SUBSET PoolIssues, repos : {PoolRepos}]
  /\ \E w \in PoolWindows, repos \in {{"svc"}, {"svc", "web"}} :
       redArgs = [owner |-> "acme", repos |-> repos,
                  startDate |-> w[1], endDate |-> w[2]]
  /\ redOut = NoMetrics
  /\ rangeArgs = [startDate |-> 0, endDate |-> 0, granularity |-> "day"]
  /\ rangeOut = NoOutput
  /\ score = <<>>
  /\ call = [c \in Calls |-> IdleCall]
  /\ fetch = IdleFetch

RunReducers ==
  /\ redOut = NoMetrics
  /\ redOut' = WindowMetrics(activity, redArgs.owner, redArgs.repos,
                             redArgs.startDate, redArgs.endDate)
  /\ UNCHANGED <<activity, redArgs, rangeVars, mainVars, fetchVars>>

NextReduce == RunReducers

SpecReduce == InitReduce /\ [][NextReduce]_vars

(***************************************************************************)
(* fetchData (src/unnamed/part_001): the ingestion job that fills the      *)
(* releases, prs, issues and repos collections from GitHub.  A GitHub      *)
(* node's author is its login; NoAuthor stands for a null author.          *)
(***************************************************************************)
NoAuthor == ""

\* the login, absent or not, stored as it is
OrUnknownAbsent(login) == login

\* login || "unknown"
OrUnknown(login) == IF login = NoAuthor THEN "unknown" ELSE login

FetchOwner == "appsmithorg"

\* repositories(...) { nodes { name createdAt } }
RepoNode(name, createdAt) == [name |-> name, createdAt |-> createdAt]

\* the lists getRepos may return, newest first
RepoLists ==
  {<<>>, <<RepoNode("svc", 2)>>, <<RepoNode("web", 5), RepoNode("svc", 2)>>}

\* releases(...) { nodes { tagName createdAt author { login } } }
ReleaseNodes ==
  {[tagName |-> "v1", createdAt |-> 9, author |-> "bob"],
   [tagName |-> "v2", createdAt |-> 30, author |-> NoAuthor],
   [tagName |-> "v3", createdAt |-> 50, author |-> "alice"]}

\* pullRequests(...) { nodes { number createdAt mergedAt author { login } } }
PullRequestNodes ==
  {[number |-> 1, createdAt |-> 26, mergedAt |-> 28, author |-> "bob"],
   [number |-> 2, createdAt |-> 40, mergedAt |-> 41, author |-> NoAuthor]}

\* issues(...) { nodes { number createdAt closedAt author { login } } }
IssueNodes ==
  {[number |-> 3, createdAt |-> 27, closedAt |-> 36, author |-> NoAuthor],
   [number |-> 4, createdAt |-> 60, closedAt |-> NoTime, author |-> "alice"]}

\* the nodes created between startDate and endDate
CreatedBetween(nodes, startDate, endDate) ==
  {n \in nodes : n.createdAt >= startDate /\ n.createdAt <= endDate}

\* continue: on to the next repository of the list, or out of the loop
Continue(f) ==
  IF Len(f.repos) > 1
  THEN [f EXCEPT !.repos = Tail(@), !.pc = "getReleases", !.data = {},
                 !.count = [issue |-> 0, pr |-> 0]]
  ELSE [f EXCEPT !.repos = <<>>, !.pc = "done", !.data = {}]

\* catch (error): the error is logged and fetchData returns
Caught(f) == [f EXCEPT !.pc = "done", !.data = {}]

\* createMany adds every record of the batch; when it fails, a part of the
\* batch may have been added
CreateMany(rows, data, ok, written) ==
  IF ok THEN rows \cup data ELSE rows \cup written

FetchIdleVars == <<rangeVars, redVars, mainVars>>

initializeAppAuth(ok) ==
  /\ fetch.pc = "auth"
  /\ fetch' = IF ok THEN [fetch EXCEPT !.pc = "getRepos"] ELSE Caught(fetch)
  /\ UNCHANGED <<activity, FetchIdleVars>>

\* getRepos(owner, startDate, endDate, true): every repository of the owner,
\* or none when the query fails
getRepos ==
  /\ fetch.pc = "getRepos"
  /\ \E repos \in RepoLists :
       fetch' = IF repos = <<>> THEN [fetch EXCEPT !.pc = "done"]
                ELSE [fetch EXCEPT !.repos = repos, !.pc = "getReleases",
                        !.listed = {repos[i].name : i \in 1..Len(repos)}]
  /\ UNCHANGED <<activity, FetchIdleVars>>

getReleases ==
  /\ fetch.pc = "getReleases"
  /\ \E nodes \in SUBSET ReleaseNodes :
       LET releases == CreatedBetween(nodes, fetch.startDate, fetch.endDate)
           repo == Head(fetch.repos)
           releaseData == {[org |-> fetch.owner, repo |-> repo.name,
                            user |-> OrUnknown(release.author),
                            release |-> release,
                            timestamp |-> release.createdAt]
                             : release \in releases}
       IN  fetch' = IF releases = {} THEN Continue(fetch)
                    ELSE [fetch EXCEPT !.data = releaseData,
                                       !.pc = "createReleases"]
  /\ UNCHANGED <<activity, FetchIdleVars>>

createReleases(ok) ==
  /\ fetch.pc = "createReleases"
  /\ \E written \in SUBSET fetch.data :
       /\ written # fetch.data
       /\ ok => written = {}
       /\ activity' = [activity EXCEPT
                         !.releases = CreateMany(@, fetch.data, ok, written)]
  /\ fetch' = IF ok THEN [fetch EXCEPT !.pc = "getPullRequests", !.data = {}]
              ELSE Caught(fetch)
  /\ UNCHANGED FetchIdleVars

getPullRequests ==
  /\ fetch.pc = "getPullRequests"
  /\ \E nodes \in SUBSET PullRequestNodes :
       LET prs == CreatedBetween(nodes, fetch.startDate, fetch.endDate)
           repo == Head(fetch.repos)
           prData == {[org |-> fetch.owner, repo |-> repo.name,
                       user |-> OrUnknown(pr.author), pr |-> pr,
                       timestamp |-> pr.createdAt] : pr \in prs}
       IN  fetch' = IF prs = {} THEN Continue(fetch)
                    ELSE [fetch EXCEPT !.data = prData, !.pc = "createPrs"]
  /\ UNCHANGED <<activity, FetchIdleVars>>

createPrs(ok) ==
  /\ fetch.pc = "createPrs"
  /\ \E written \in SUBSET fetch.data :
       /\ written # fetch.data
       /\ ok => written = {}
       /\ activity' = [activity EXCEPT
                         !.prs = CreateMany(@, fetch.data, ok, written)]
  /\ fetch' = IF ok
              THEN [fetch EXCEPT !.pc = "getIssues", !.data = {},
                                 !.count.pr = @ + Cardinality(fetch.data)]
              ELSE Caught(fetch)
  /\ UNCHANGED FetchIdleVars

getIssues ==
  /\ fetch.pc = "getIssues"
  /\ \E nodes \in SUBSET IssueNodes :
       LET issues == CreatedBetween(nodes, fetch.startDate, fetch.endDate)
           repo == Head(fetch.repos)
           issueData == {[org |-> fetch.owner, repo |-> repo.name,
                          user |-> OrUnknown(issue.author), issue |-> issue,
                          timestamp |-> issue.createdAt] : issue \in issues}
       IN  fetch' = IF issues = {} THEN Continue(fetch)
                    ELSE [fetch EXCEPT !.data = issueData,
                            !.pc = "createIssues",
                            !.count.issue = @ + Cardinality(issues)]
  /\ UNCHANGED <<activity, FetchIdleVars>>

createIssues(ok) ==
  /\ fetch.pc = "createIssues"
  /\ \E written \in SUBSET fetch.data :
       /\ written # fetch.data
       /\ ok => written = {}
       /\ activity' = [activity EXCEPT
                         !.issues = CreateMany(@, fetch.data, ok, written)]
  /\ fetch' = IF ok THEN [fetch EXCEPT !.pc = "createRepo", !.data = {}]
              ELSE Caught(fetch)
  /\ UNCHANGED FetchIdleVars

\* client.repos.create, the last statement of the loop body
createRepo(ok) ==
  /\ fetch.pc = "createRepo"
  /\ LET repo == Head(fetch.repos)
         row == [owner |-> fetch.owner, repo |-> repo.name,
                 issue |-> fetch.count.issue, pr |-> fetch.count.pr,
                 timestamp |-> repo.createdAt]
     IN  activity' = IF ok THEN [activity EXCEPT !.repos = @ \cup {row}]
                     ELSE activity
  /\ fetch' = IF ok THEN Continue(fetch) ELSE Caught(fetch)
  /\ UNCHANGED FetchIdleVars

\* SpecFetch: one run of fetchData on an empty database
InitFetch ==
  /\ fetch = [IdleFetch EXCEPT !.pc = "auth", !.owner = FetchOwner,
                               !.startDate = 24, !.endDate = 192]
  /\ activity = EmptyStore
  /\ score = <<>>
  /\ call = [c \in Calls |-> IdleCall]
  /\ rangeArgs = [startDate |-> 0, endDate |-> 0, granularity |-> "day"]
  /\ rangeOut = NoOutput
  /\ redArgs = NoRedArgs
  /\ redOut = NoMetrics

NextFetch ==
  \/ \E ok \in BOOLEAN : initializeAppAuth(ok)
  \/ getRepos
  \/ getReleases
  \/ \E ok \in BOOLEAN : createReleases(ok)
  \/ getPullRequests
  \/ \E ok \in BOOLEAN : createPrs(ok)
  \/ getIssues
  \/ \E ok \in BOOLEAN : createIssues(ok)
  \/ \E ok \in BOOLEAN : createRepo(ok)

SpecFetch == InitFetch /\ [][NextFetch]_vars

(***************************************************************************)
(* Reducer properties                                                      *)
(***************************************************************************)
ReduceDone == redOut # NoMetrics

\* the documents of collection docs that the window of redArgs selects
Selected(docs) ==
  {x \in docs : /\ InWindow(x, redArgs.owner, redArgs.startDate, redArgs.endDate)
                /\ x.repo \in redArgs.repos}

MergedPRs == {p \in Selected(activity.prs) : p.mergedAt # NoTime}

RestoredIssues ==
  {i \in Selected(activity.issues) : IsFailure(i) /\ i.closedAt # NoTime}

\* hours between two instants
HoursBetween(from, to) == to - from

RECURSIVE SumHoursToMerge(_)
SumHoursToMerge(S) ==
  IF S = {} THEN 0
  ELSE LET x == CHOOSE y \in S : TRUE
       IN  HoursBetween(x.createdAt, x.mergedAt) + SumHoursToMerge(S \ {x})

RECURSIVE SumHoursToClose(_)
SumHoursToClose(S) ==
  IF S = {} THEN 0
  ELSE LET x == CHOOSE y \in S : TRUE
       IN  HoursBetween(x.createdAt, x.closedAt) + SumHoursToClose(S \ {x})

AvgHoursToMerge(S) ==
  IF S = {} THEN Zero ELSE Rat(SumHoursToMerge(S), Cardinality(S))

AvgHoursToClose(S) ==
  IF S = {} THEN Zero ELSE Rat(SumHoursToClose(S), Cardinality(S))

\* C9 (as claimed): leadTimeForChanges of the organization, of every user and
\* of every repository of the result is the average, over that subject's
\* merged pull requests of the window, of the hours from start boundary to
\* merge; unmerged pull requests contribute nothing.
C9_LeadTimeIsAverageHoursToMerge ==
  ReduceDone =>
    /\ redOut.orgs.leadTimeForChanges = AvgHoursToMerge(MergedPRs)
    /\ \A u \in redOut.users :
         u.leadTimeForChanges
           = AvgHoursToMerge({p \in MergedPRs : p.user = u.user})
    /\ \A r \in redOut.repos :
         r.leadTimeForChanges
           = AvgHoursToMerge({p \in MergedPRs : p.repo = r.repo})

\* C10 (as claimed): timeToRestoreService of the organization, of every user
\* and of every repository of the result is the average, over that subject's
\* closed issues labelled "failure" in the window, of the hours from creation
\* to close; other issues contribute nothing.
C10_RestoreTimeIsAverageHoursToClose ==
  ReduceDone =>
    /\ redOut.orgs.timeToRestoreService = AvgHoursToClose(RestoredIssues)
    /\ \A u \in redOut.users :
         u.timeToRestoreService
           = AvgHoursToClose({i \in RestoredIssues : i.user = u.user})
    /\ \A r \in redOut.repos :
         r.timeToRestoreService
           = AvgHoursToClose({i \in RestoredIssues : i.repo = r.repo})


\* a defined number between 0 and 100 inclusive
IsPercentage(x) == ~IsNaN(x) /\ x.n >= 0 /\ x.n <= 100 * x.d

\* C11 (as claimed): changeFailureRate of the organization, of every
\* repository and of every user of a result is a defined number between 0 and
\* 100, and it is 0 for the organization when the window holds no issue.
C11_ChangeFailureRateIsPercentage ==
  ReduceDone =>
    /\ IsPercentage(redOut.orgs.changeFailureRate)
    /\ \A u \in redOut.users : IsPercentage(u.changeFailureRate)
    /\ \A r \in redOut.repos : IsPercentage(r.changeFailureRate)
    /\ Selected(activity.issues) = {} => redOut.orgs.changeFailureRate = Zero

\* C12: without a merged pull request in the window the organization's
\* leadTimeForChanges is 0, without a closed failure issue its
\* timeToRestoreService is 0, and a user or repository of the result without
\* such a record reports 0 in that field.
C12_NoRecordGivesZero ==
  ReduceDone =>
    /\ MergedPRs = {} => redOut.orgs.leadTimeForChanges = Zero
    /\ RestoredIssues = {} => redOut.orgs.timeToRestoreService = Zero
    /\ \A u \in redOut.users :
         /\ {p \in MergedPRs : p.user = u.user} = {}
              => u.leadTimeForChanges = Zero
         /\ {i \in RestoredIssues : i.user = u.user} = {}
              => u.timeToRestoreService = Zero
    /\ \A r \in redOut.repos :
         /\ {p \in MergedPRs : p.repo = r.repo} = {}
              => r.leadTimeForChanges = Zero
         /\ {i \in RestoredIssues : i.repo = r.repo} = {}
              => r.timeToRestoreService = Zero

\* a window with releases of a user but no merged pull request and no closed
\* failure issue at all
C12_Witness ==
  /\ ReduceDone
  /\ MergedPRs = {}
  /\ RestoredIssues = {}
  /\ Selected(activity.prs) # {}
  /\ redOut.users # {}
  /\ redOut.repos # {}
  /\ redOut.orgs.leadTimeForChanges = Zero
  /\ redOut.orgs.timeToRestoreService = Zero

\* the releases of the owner in the window, of whatever repository
WindowReleases ==
  {x \in activity.releases :
     InWindow(x, redArgs.owner, redArgs.startDate, redArgs.endDate)}

\* the users with a release, a merged pull request or an issue in the window
ActiveUsers ==
  {x.user : x \in WindowReleases} \cup {p.user : p \in MergedPRs}
    \cup {i.user : i \in Selected(activity.issues)}

\* C13: the users of a freshly computed window are exactly the users of the
\* four reducers' outputs, each once; deploymentFrequency is the user's number
\* of releases and a field the user contributes nothing to is 0.
C13_UsersAreUnionOfReducers ==
  ReduceDone =>
    /\ {u.user : u \in redOut.users} = ActiveUsers
    /\ Cardinality(redOut.users) = Cardinality(ActiveUsers)
    /\ \A u \in redOut.users :
         /\ u.deploymentFrequency
              = Num(Cardinality({x \in WindowReleases : x.user = u.user}))
         /\ {p \in MergedPRs : p.user = u.user} = {}
              => u.leadTimeForChanges = Zero
         /\ {i \in Selected(activity.issues) : i.user = u.user} = {}
              => u.changeFailureRate = Zero
         /\ {i \in RestoredIssues : i.user = u.user} = {}
              => u.timeToRestoreService = Zero

\* a user with two releases in the window and no pull request or issue
C13_Witness ==
  /\ ReduceDone
  /\ \E u \in redOut.users :
       /\ u.deploymentFrequency = Num(2)
       /\ u.leadTimeForChanges = Zero
       /\ u.changeFailureRate = Zero
       /\ u.timeToRestoreService = Zero
       /\ {i \in Selected(activity.issues) : i.user = u.user} = {}
       /\ {p \in Selected(activity.prs) : p.user = u.user} = {}

\* the activity store without the records of repositories other than repo
OnlyRepo(store, repo) ==
  [releases |-> {x \in store.releases : x.repo = repo},
   prs |-> {x \in store.prs : x.repo = repo},
   issues |-> {x \in store.issues : x.repo = repo},
   repos |-> store.repos]

FailurePercentage(S) ==
  Rat(100 * Cardinality({i \in S : "failure" \in i.labels}), Cardinality(S))

\* C15: for every user and every repository with an issue in the window,
\* changeFailureRate (of the reducer and of the combined result) is the number
\* of the subject's issues labelled "failure" over the number of all its
\* issues, times 100.
C15_ChangeFailureRateIsFailuresOverTotal ==
  ReduceDone =>
    LET issues == Selected(activity.issues)
        rates == calculateChangeFailureRate(activity, redArgs.owner,
                   redArgs.repos, redArgs.startDate, redArgs.endDate)
    IN  /\ DOMAIN rates.userFailureRates = {i.user : i \in issues}
        /\ DOMAIN rates.repoFailureRates = {i.repo : i \in issues}
        /\ \A u \in DOMAIN rates.userFailureRates :
             rates.userFailureRates[u]
               = FailurePercentage({i \in issues : i.user = u})
        /\ \A r \in DOMAIN rates.repoFailureRates :
             rates.repoFailureRates[r]
               = FailurePercentage({i \in issues : i.repo = r})
        /\ \A u \in redOut.users :
             {i \in issues : i.user = u.user} # {}
               => u.changeFailureRate
                    = FailurePercentage({i \in issues : i.user = u.user})
        /\ \A r \in redOut.repos :
             {i \in issues : i.repo = r.repo} # {}
               => r.changeFailureRate
                    = FailurePercentage({i \in issues : i.repo = r.repo})

\* a user with one failure issue among two issues: a rate of 50
C15_Witness ==
  /\ ReduceDone
  /\ \E u \in redOut.users :
       /\ Cardinality({i \in Selected(activity.issues) : i.user = u.user}) = 2
       /\ u.changeFailureRate = Num(50)

\* the repositories with a release, a merged pull request or an issue among
\* the selected records of the window
ActiveRepos ==
  {x.repo : x \in Selected(activity.releases)} \cup {p.repo : p \in MergedPRs}
    \cup {i.repo : i \in Selected(activity.issues)}

\* C29 (as claimed): every repository with a release, a merged pull request
\* or an issue in a freshly computed window appears exactly once in the
\* per-repository result, with 0 in each field it contributes nothing to.
C29_ReposAreUnionOfReducers ==
  ReduceDone =>
    /\ \A repo \in ActiveRepos :
         Cardinality({r \in redOut.repos : r.repo = repo}) = 1
    /\ \A r \in redOut.repos :
         /\ {p \in MergedPRs : p.repo = r.repo} = {}
              => r.leadTimeForChanges = Zero
         /\ {i \in Selected(activity.issues) : i.repo = r.repo} = {}
              => r.changeFailureRate = Zero
         /\ {i \in RestoredIssues : i.repo = r.repo} = {}
              => r.timeToRestoreService = Zero

(***************************************************************************)
(* SpecRange: the bucketizer applied to every input of the bounded sets    *)
(***************************************************************************)
RangeDays == 0..MaxRangeDay

InitRange ==
  /\ rangeArgs \in [startDate : RangeDays, endDate : RangeDays,
                    granularity : Granularities \cup {"year"}]
  /\ rangeOut = NoOutput
  /\ activity = EmptyStore
  /\ redArgs = NoRedArgs
  /\ redOut = NoMetrics
  /\ score = <<>>
  /\ call = [c \in Calls |-> IdleCall]
  /\ fetch = IdleFetch

RunDateRange ==
  /\ rangeOut = NoOutput
  /\ rangeOut' = dateRange(rangeArgs.startDate, rangeArgs.endDate,
                           rangeArgs.granularity)
  /\ UNCHANGED <<rangeArgs, activity, redVars, fetchVars, mainVars>>

NextRange == RunDateRange

SpecRange == InitRange /\ [][NextRange]_vars

(***************************************************************************)
(* Bucketizer properties                                                   *)
(***************************************************************************)
RangeDone == rangeOut # NoOutput

RangeWindows == rangeOut.windows

\* the calendar days of window w, a closed range
WindowDays(w) == w[1]..w[2]

\* C4: for startDate <= endDate and granularity day, week or month, the
\* windows are increasing, pairwise disjoint, contiguous (each starts the day
\* after the previous one ends), contain every calendar day of
\* [startDate, endDate], and the last window ends on endDate.
C4_WindowsPartitionRange ==
  (/\ RangeDone
   /\ rangeArgs.granularity \in Granularities
   /\ rangeArgs.startDate <= rangeArgs.endDate)
  => LET ws == RangeWindows
     IN  /\ rangeOut.error = "none"
         /\ Len(ws) >= 1
         /\ \A i \in 1..Len(ws) : ws[i][1] <= ws[i][2]
         /\ \A i \in 1..(Len(ws) - 1) : ws[i + 1][1] = ws[i][2] + 1
         /\ \A i, j \in 1..Len(ws) :
              i < j => WindowDays(ws[i]) \cap WindowDays(ws[j]) = {}
         /\ \A d \in rangeArgs.startDate..rangeArgs.endDate :
              \E i \in 1..Len(ws) : d \in WindowDays(ws[i])
         /\ ws[Len(ws)][2] = rangeArgs.endDate

\* a month range that crosses two month boundaries and ends inside a month
C4_Witness ==
  /\ RangeDone
  /\ rangeArgs.granularity = "month"
  /\ rangeArgs.startDate = 20
  /\ rangeArgs.endDate = 62
  /\ Len(RangeWindows) = 3

\* C5 (as claimed): startDate strictly after endDate produces no window and
\* no error, for every granularity day, week or month.
C5_ReversedRangeIsEmpty ==
  (/\ RangeDone
   /\ rangeArgs.granularity \in Granularities
   /\ rangeArgs.startDate > rangeArgs.endDate)
  => (rangeOut.error = "none" /\ RangeWindows = <<>>)

\* C18 (as claimed): for startDate <= endDate every window lies within the
\* span: startDate <= window start and window end <= endDate.
C18_WindowsClippedToSpan ==
  (/\ RangeDone
   /\ rangeArgs.granularity \in Granularities
   /\ rangeArgs.startDate <= rangeArgs.endDate)
  => \A i \in 1..Len(RangeWindows) :
       /\ rangeArgs.startDate <= RangeWindows[i][1]
       /\ RangeWindows[i][2] <= rangeArgs.endDate

(***************************************************************************)
(* Request properties                                                      *)
(***************************************************************************)
\* the four org-level values of a window of a result
OrgTuple(m) ==
  <<m.deploymentFrequency, m.leadTimeForChanges, m.changeFailureRate,
    m.timeToRestoreService>>

\* the key of a score row
RowKey(r) == <<r.org, r.repo, r.user, r.start, r.granularity>>

NoDuplicateKeys ==
  \A i, j \in 1..Len(score) : i < j => RowKey(score[i]) # RowKey(score[j])

\* the operations of calculateUserDoraMetrics that failed in call cl
CalcFailed(cl) ==
  {op \in cl.failed : op[1] \notin {"$connect", "$disconnect"}}

\* the storage reads and writes call cl has issued
StorageOps(cl) ==
  {op \in cl.io : op[1] \notin {"$connect", "$disconnect"}}

\* C1 (as claimed): with the activity store unchanged, a call that repeats an
\* earlier, finished call with identical arguments returns for every window
\* the org-level tuple the earlier call returned.
C1_RepeatedCallReturnsSameOrgTuples ==
  \A c1, c2 \in Calls :
    (/\ c1 \in call[c2].after
     /\ call[c1].status = "ok"
     /\ call[c2].status = "ok"
     /\ call[c1].args = call[c2].args)
    => /\ DOMAIN call[c2].metrics.orgs = DOMAIN call[c1].metrics.orgs
       /\ \A s \in DOMAIN call[c2].metrics.orgs :
            OrgTuple(call[c2].metrics.orgs[s])
              = OrgTuple(call[c1].metrics.orgs[s])

\* C2 (as claimed): under any interleaving of concurrent calls the score
\* store never holds two rows with the same key.
C2_NoDuplicateRowsUnderConcurrency == NoDuplicateKeys

\* C3: as long as every call so far was strictly sequential and none has
\* failed, the score store holds at most one row per key.
C3_SequentialCallsKeepKeysUnique ==
  (\A c \in Calls : call[c].status # "error") => NoDuplicateKeys

\* a second, successful call has updated the rows a first one created
C3_Witness ==
  /\ call[1].status = "ok"
  /\ call[2].status = "ok"
  /\ 1 \in call[2].after
  /\ call[2].args = call[1].args
  /\ Len(score) >= 3
  /\ \E u \in call[2].saves : u.id # 0

\* C6 (as claimed): a call with a granularity other than day, week, month
\* issues no storage operation and ends in an error.
C6_InvalidGranularityRejectedBeforeIO ==
  \A c \in Calls :
    (/\ call[c].pc # "idle"
     /\ ~MissingParameter(call[c].args)
     /\ call[c].args.granularity \notin Granularities)
    => /\ StorageOps(call[c]) = {}
       /\ ~call[c].returned
       /\ call[c].pc = "done" => call[c].status = "error"

\* C7 (as claimed): a dora query with an absent owner, startDate, endDate or
\* granularity opens no datastore connection and issues no storage operation.
C7_MissingParameterRejectedBeforeIO ==
  \A c \in Calls :
    (call[c].pc # "idle" /\ MissingParameter(call[c].args))
    => /\ call[c].conn = "none"
       /\ StorageOps(call[c]) = {}
       /\ call[c].pc = "done" => call[c].status = "error"

\* every window of the range is in the result and every operation is done
Complete(cl) ==
  /\ \A i \in 1..Len(cl.dates) : cl.dates[i][1] \in DOMAIN cl.metrics.orgs
  /\ \A s \in DOMAIN cl.tasks : cl.tasks[s].pc = "done"
  /\ \A u \in cl.saves : u.pc = "done"

\* C8: a call returns a result only if none of its reducer queries, cache
\* lookups and score writes failed and every window and every write is done;
\* a call with a failed operation ends in an error; a failed operation stays
\* failed (it is not issued again).
C8_FailureAbortsCall ==
  [][\A c \in Calls :
       /\ call'[c].returned
            => CalcFailed(call'[c]) = {} /\ Complete(call'[c])
       /\ CalcFailed(call'[c]) # {}
            => call'[c].status = "error" /\ call'[c].pc = "done"
       /\ call[c].failed \subseteq call'[c].failed
       /\ \A s \in DOMAIN call[c].tasks :
            call[c].tasks[s].pc = "failed" => call'[c].tasks[s].pc = "failed"
       /\ \A u \in call[c].saves :
            u.pc = "failed" => u \in call'[c].saves]_vars

\* a score write of a call failed after another of its writes was done, and
\* the call has ended in an error
C8_Witness ==
  \E c \in Calls :
    /\ \E op \in call[c].failed : op[1] \in {"score.update", "score.create"}
    /\ \E u \in call[c].saves : u.pc = "done"
    /\ call[c].status = "error"
    /\ call[c].pc = "done"
    /\ ~call[c].returned

\* call c has finished and no other call has arrived since
LatestFinished(c) ==
  /\ call[c].pc = "done"
  /\ \A d \in Calls : c \notin call[d].after

\* the store holds an org-level row of window s with the org-level values m
HasOrgRow(owner, s, granularity, m) ==
  \E i \in 1..Len(score) :
    /\ score[i].org = owner
    /\ score[i].repo = NoName
    /\ score[i].user = NoName
    /\ score[i].start = s
    /\ score[i].granularity = granularity
    /\ score[i].score = ScoreOf(m)

HasSubjectRow(owner, s, granularity, repo, user) ==
  \E i \in 1..Len(score) :
    /\ score[i].org = owner
    /\ score[i].repo = repo
    /\ score[i].user = user
    /\ score[i].start = s
    /\ score[i].granularity = granularity

\* C17 (as claimed): with no call in flight, every window whose cache row a
\* call has created also has a row for every user and for every repository
\* the reducers of that call reported for it.
C17_CachedWindowHasAllLevels ==
  NoCallInFlight =>
    \A c \in Calls : \A s \in DOMAIN call[c].tasks :
      call[c].tasks[s].pc = "done"
      => LET m == dateMetrics(call[c], s)
             a == call[c].args
         IN  /\ \A u \in m.users :
                  HasSubjectRow(a.owner, s, a.granularity, NoName, u.user)
             /\ \A r \in m.repos :
                  HasSubjectRow(a.owner, s, a.granularity, r.repo, NoName)

\* the window starts of the call that have an org-level row in the store
OrgCached(cl) ==
  {s \in {cl.dates[i][1] : i \in 1..Len(cl.dates)} :
     \E i \in 1..Len(score) :
       /\ score[i].org = cl.args.owner
       /\ score[i].repo = NoName
       /\ score[i].user = NoName
       /\ score[i].start = s
       /\ score[i].granularity = cl.args.granularity}

\* the reducer queries and row creations of a call
ComputeOps(cl) ==
  {op \in cl.io : op[1] \in {"releases.findMany", "prs.findMany",
                             "issues.findMany", "score.create"}}

\* C19: when the cache lookup of a call resolves, the windows it computes are
\* exactly those without an org-level row; the call issues reducer queries
\* and row creations for those windows only, one computation per window.
C19_ComputedIffNotCached ==
  [][\A c \in Calls :
       /\ (/\ call[c].pc = "lookup"
           /\ call'[c].pc # "lookup"
           /\ call'[c].failed = call[c].failed)
          => /\ DOMAIN call'[c].tasks
                  = {call[c].dates[i][1] : i \in 1..Len(call[c].dates)}
                      \ OrgCached(call[c])
             /\ \A s \in DOMAIN call'[c].tasks :
                  ReducerQueries(call[c].repos, s) \subseteq call'[c].io
       /\ call[c].pc \notin {"idle", "connect", "listRepos", "lookup"}
            => DOMAIN call'[c].tasks = DOMAIN call[c].tasks
       /\ \A op \in ComputeOps(call'[c]) : op[2] \in DOMAIN call'[c].tasks
       /\ \A s \in DOMAIN call[c].tasks :
            call[c].tasks[s].pc = "done" => call'[c].tasks[s].pc = "done"]_vars

\* a call over two windows found the first one cached and computed the second
C19_Witness ==
  \E c \in Calls :
    /\ Len(call[c].dates) = 2
    /\ Cardinality(DOMAIN call[c].tasks) = 1
    /\ \A s \in DOMAIN call[c].tasks : call[c].tasks[s].pc = "done"
    /\ call[c].status = "ok"

\* C20: a window's cache row is created only after its four reducers have
\* completed (a started window waits for all of them, one completion at a
\* time), and saveMetricsToDB issues its operations only when every window
\* of the call is computed and cached.
C20_ReducersThenCacheThenPersist ==
  [][\A c \in Calls :
       /\ \A s \in DOMAIN call'[c].tasks :
            IF s \notin DOMAIN call[c].tasks
            THEN /\ call'[c].tasks[s].pc = "reduce"
                 /\ call'[c].tasks[s].left
                      = (IF call'[c].repos = {} THEN 1 ELSE 4)
            ELSE LET old == call[c].tasks[s]
                     new == call'[c].tasks[s]
                 IN  /\ (old.pc = "reduce" /\ new.pc = "reduce")
                          => new.left \in {old.left, old.left - 1}
                     /\ new.left >= 0
                     /\ (new.pc = "create" /\ old.pc # "create")
                          => old.pc = "reduce" /\ old.left = 1
                     /\ (new.pc = "done" /\ old.pc # "done")
                          => old.pc = "create" /\ Len(score') = Len(score) + 1
                     /\ new.pc = "reduce" => new.left >= 1
       /\ call'[c].saves # {}
            => \A s \in DOMAIN call'[c].tasks : call'[c].tasks[s].pc = "done"
       /\ (\E op \in call'[c].io : op[1] \in {"score.findFirst", "score.update"})
            => \A s \in DOMAIN call'[c].tasks : call'[c].tasks[s].pc = "done"]_vars

\* a call over two windows has computed and cached both and is persisting
C20_Witness ==
  \E c \in Calls :
    /\ call[c].pc = "save"
    /\ Cardinality(DOMAIN call[c].tasks) = 2
    /\ \A s \in DOMAIN call[c].tasks : call[c].tasks[s].pc = "done"
    /\ call[c].repos # {}
    /\ \E u \in call[c].saves : u.pc = "done"

\* C22: no step of a call changes the activity store; a step changes at most
\* the score store and the calls' own state.
C22_ActivityStoreUnchanged ==
  [][/\ activity' = activity
     /\ rangeVars' = rangeVars
     /\ redVars' = redVars]_vars

\* a call over a store with activity has computed, cached and persisted
C22_Witness ==
  \E c \in Calls :
    /\ call[c].status = "ok"
    /\ activity.releases # {}
    /\ activity.issues # {}
    /\ activity.repos # {}
    /\ Len(score) >= 3

\* C23: a window a call took from the cache has an empty users list and an
\* empty repos list in the result, whatever rows the store holds for it.
C23_CachedWindowIsOrgOnly ==
  \A c \in Calls :
    call[c].returned
    => \A s \in DOMAIN call[c].metrics.orgs :
         s \notin DOMAIN call[c].tasks
         => /\ s \in DOMAIN call[c].metrics.users
            /\ s \in DOMAIN call[c].metrics.repos
            /\ call[c].metrics.users[s] = {}
            /\ call[c].metrics.repos[s] = {}

\* a call returned a window from the cache while the store held a per-user
\* and a per-repository row for that window
C23_Witness ==
  \E c \in Calls :
    /\ call[c].returned
    /\ \E s \in DOMAIN call[c].metrics.orgs :
         /\ s \notin DOMAIN call[c].tasks
         /\ \E i, j \in 1..Len(score) :
              /\ score[i].start = s
              /\ score[i].granularity = call[c].args.granularity
              /\ score[i].user # NoName
              /\ score[j].start = s
              /\ score[j].granularity = call[c].args.granularity
              /\ score[j].repo # NoName

\* the calendar day of an instant
DayOf(t) == t \div HoursPerDay

\* C28 (as claimed): in a successful call that computed every window of its
\* range, every release, pull request and issue of the owner whose timestamp
\* lies on a calendar day of [startDate, endDate] falls into exactly one
\* window.
C28_EveryRecordInExactlyOneWindow ==
  \A c \in Calls :
    LET cl == call[c]
        starts == {cl.dates[i][1] : i \in 1..Len(cl.dates)}
    IN  (/\ cl.status = "ok"
         /\ cl.args.granularity \in Granularities
         /\ DOMAIN cl.tasks = starts)
        => \A x \in activity.releases \cup activity.prs \cup activity.issues :
             (/\ x.org = cl.args.owner
              /\ DayOf(x.timestamp) >= cl.args.startDate
              /\ DayOf(x.timestamp) <= cl.args.endDate)
             => Cardinality({s \in starts :
                               InWindow(x, cl.args.owner, s,
                                        WindowEnd(cl.dates, s))}) = 1

\* C30 (as claimed): once a request has finished, whether it succeeded, was
\* rejected or failed, its datastore connection is not open any more.
C30_ConnectionsClosedWhenFinished ==
  \A c \in Calls : call[c].pc = "done" => call[c].conn # "open"

\* the score store differs from rows at position i only
OnlyRowChanged(rows, i) ==
  /\ Len(score') = Len(rows)
  /\ \A j \in 1..Len(rows) : j # i => score'[j] = rows[j]

\* C24 (as claimed): when an upsert of saveMetricsToDB writes, then if the
\* store holds a row with exactly the key of the upsert that row gets the new
\* score and keeps its key, and otherwise a row with that key is appended;
\* every other row stays as it is.
C24_UpsertTouchesOnlyItsKey ==
  [][\A c \in Calls : \A u \in call[c].saves :
       (/\ u.pc \in {"update", "create"}
        /\ u \notin call'[c].saves
        /\ [u EXCEPT !.pc = "done"] \in call'[c].saves)
       => IF \E i \in 1..Len(score) : RowKey(score[i]) = RowKey(u.data)
          THEN \E i \in 1..Len(score) :
                 /\ RowKey(score[i]) = RowKey(u.data)
                 /\ RowKey(score'[i]) = RowKey(u.data)
                 /\ score'[i].score = u.data.score
                 /\ OnlyRowChanged(score, i)
          ELSE /\ Len(score') = Len(score) + 1
               /\ SubSeq(score', 1, Len(score)) = score
               /\ RowKey(score'[Len(score')]) = RowKey(u.data)
               /\ score'[Len(score')].score = u.data.score]_vars

\* the org-level tuples call cl returned are those its reducers compute for
\* its own windows and repositories
ReturnsFreshOrgTuples(cl) ==
  \A s \in DOMAIN cl.metrics.orgs :
    OrgTuple(cl.metrics.orgs[s]) = OrgTuple(dateMetrics(cl, s).orgs)

\* C26 (as claimed): a successful call with a repo argument returns for every
\* window the org-level tuple the reducers compute for that window and that
\* repository, whatever earlier calls have cached.
C26_RepoFilteredCallReturnsFilteredTuples ==
  \A c \in Calls :
    (/\ call[c].status = "ok"
     /\ call[c].args.repo # NoName
     /\ call[c].args.granularity \in Granularities)
    => ReturnsFreshOrgTuples(call[c])

\* C27 (as claimed): a successful week or month call returns for every window
\* the org-level tuple of a fresh computation over its own window bounds, also
\* after an earlier call with the same arguments but a smaller endDate.
C27_LongerRangeReturnsFullWindows ==
  \A c1, c2 \in Calls :
    (/\ c1 \in call[c2].after
     /\ call[c1].status = "ok"
     /\ call[c2].status = "ok"
     /\ call[c2].args.granularity \in {"week", "month"}
     /\ call[c1].args.endDate < call[c2].args.endDate
     /\ call[c1].args = [call[c2].args EXCEPT !.endDate = call[c1].args.endDate])
    => ReturnsFreshOrgTuples(call[c2])

\* the rows of a store with their multiplicities, whatever their order
BagOf(rows) ==
  [r \in {rows[i] : i \in 1..Len(rows)} |->
     Cardinality({i \in 1..Len(rows) : rows[i] = r})]

\* the rows S created one after the other
RECURSIVE CreateAll(_, _)
CreateAll(rows, S) ==
  IF S = {} THEN rows
  ELSE LET d == CHOOSE x \in S : TRUE
       IN  CreateAll(ScoreCreate(rows, d), S \ {d})

\* the upserts S run one after the other
RECURSIVE UpsertAll(_, _)
UpsertAll(rows, S) ==
  IF S = {} THEN rows
  ELSE LET d == CHOOSE x \in S : TRUE
           id == ScoreFindFirst(rows, d)
       IN  UpsertAll(IF id # 0 THEN ScoreUpdate(rows, id, d)
                     ELSE ScoreCreate(rows, d), S \ {d})

\* the result of call cl when its windows and upserts run one at a time, from
\* the store its lookup has read
SequentialMetrics(cl) ==
  LET cached == getCachedMetrics(cl.before, cl.args.owner, cl.dates,
                                 cl.args.granularity)
      starts == {cl.dates[i][1] : i \in 1..Len(cl.dates)}
  IN  formatMetrics([s \in starts |->
                       IF s \in DOMAIN cached THEN cached[s]
                       ELSE dateMetrics(cl, s)])

SequentialStore(cl) ==
  LET cached == getCachedMetrics(cl.before, cl.args.owner, cl.dates,
                                 cl.args.granularity)
      starts == {cl.dates[i][1] : i \in 1..Len(cl.dates)}
      cacheRows == {CacheRow(cl.args.owner, s, WindowEnd(cl.dates, s),
                             cl.args.granularity, dateMetrics(cl, s))
                      : s \in starts \ DOMAIN cached}
  IN  UpsertAll(CreateAll(cl.before, cacheRows),
                SaveData(cl.args.owner, SequentialMetrics(cl),
                         cl.args.granularity))

\* C21: when a call has returned, with no other call in flight, its result
\* and the rows of the score store are those of the run in which its windows
\* and upserts complete one at a time in a fixed order, whatever the order in
\* which they did complete.
C21_CompletionOrderDoesNotMatter ==
  \A c \in Calls :
    (call[c].returned /\ (\A d \in Calls : c \notin call[d].after))
    => /\ call[c].metrics = SequentialMetrics(call[c])
       /\ BagOf(score) = BagOf(SequentialStore(call[c]))

\* a call has computed two windows and run several upserts side by side on a
\* store that held rows before
C21_Witness ==
  \E c \in Calls :
    /\ call[c].returned
    /\ \A d \in Calls : c \notin call[d].after
    /\ Cardinality(DOMAIN call[c].tasks) = 2
    /\ Cardinality(call[c].saves) >= 4

\* the attribution of a stored record, given the GitHub node it was made from
Attributed(rec, node) ==
  /\ rec.org = fetch.owner
  /\ rec.repo \in fetch.listed
  /\ rec.user # ""
  /\ node.author = NoAuthor => rec.user = "unknown"
  /\ node.author # NoAuthor => rec.user = node.author

\* C25: every release, pull-request and issue record written by fetchData
\* carries the owner as its organization, a repository of the owner's list
\* and a non-empty user, which is "unknown" when the GitHub author is absent.
C25_FetchedRecordsAreAttributed ==
  /\ \A rec \in activity.releases : Attributed(rec, rec.release)
  /\ \A rec \in activity.prs : Attributed(rec, rec.pr)
  /\ \A rec \in activity.issues : Attributed(rec, rec.issue)

\* a run has stored a release, a pull request and an issue without author
C25_Witness ==
  /\ fetch.pc = "done"
  /\ \E rec \in activity.releases :
       rec.release.author = NoAuthor /\ rec.user = "unknown"
  /\ \E rec \in activity.prs : rec.pr.author = NoAuthor /\ rec.user = "unknown"
  /\ \E rec \in activity.issues :
       rec.issue.author = NoAuthor /\ rec.user = "unknown"

====
